---- MODULE Spec2Model ----
(***************************************************************************)
(* Preference-pair construction and rebalancing tools of LLaMA-Factory:    *)
(*   convert_to_dpo.py          pairwise expansion and seeded train/test   *)
(*                              split          (specification SpecExpand)  *)
(*   tools/downsample_scores.py ratio rebalancing (specification SpecDown) *)
(*   tools/flip_scores.py       score-driven canonicalisation              *)
(*                                             (specification SpecFlip)    *)
(* A JSON object is a TLA+ record; a key that the object lacks is a field  *)
(* that the record lacks ("k" \in DOMAIN item is Python's "k" in item).    *)
(* A ratio given on the command line is the rational num / RatioDen; the   *)
(* products and quotients the code forms with it are computed exactly.     *)
(***************************************************************************)
EXTENDS Integers, Sequences, FiniteSets, Bags, TLC

\* ------------------------------------------------------------ bounds
MaxEntries == 2
MaxCands == 3
MaxTotalCands == 5
RatioDen == 4
MaxRuns == 2
MaxItems == 5
MaxPairs == 3

\* random.seed(42)
SEED == 42
ScoreLimit == 100

VARIABLES
    \* convert_to_dpo.py
    comparison_data,    \* the input file: a list of entries
    train_ratio,        \* numerator of the train_ratio argument (over RatioDen)
    entry_idx,          \* position of the loop "for entry in comparison_data"
    dpo_data,           \* the pair list under construction
    train_data,
    test_data,
    train_file,         \* content of train_output_file
    test_file,          \* content of test_output_file
    run,                \* how many times the tool has been started
    \* tools/downsample_scores.py
    down_input,         \* the input file: a list of pairs
    target_ratio,       \* numerator of the target_ratio argument (over RatioDen)
    data,               \* the list process_json_file loaded
    required,           \* <<required_less, required_greater_equal>> once computed
    sampled_data,       \* what downsample_dataset returned
    down_output,        \* content of the output file
    \* tools/flip_scores.py
    files,              \* files[1] is the input file, files[k+1] what run k wrote
    flip_data,          \* the list process_json_file loaded and flips in place
    flip_idx,           \* position of the loop "for i, data_point in enumerate(data)"
    flipped_count,
    \* tools/flip_and_convert_to_sft.py
    noise_input,        \* the input file: a list of pairs
    flip_ratio,         \* numerator of the --flip-ratio argument (over RatioDen)
    noise_seed,         \* the --seed argument: <<>> when not given, else <<seed>>
    noise_idx,          \* position of the loop "for item in data"
    flipped_data,       \* the list flip_chosen_rejected builds
    flip_count,
    noise_dpo,          \* the --output-dpo file: <<>> until written, then <<content>>
    noise_sft,          \* the --output-sft file, likewise
    noise_prev,         \* earlier runs: their input and the pair file they wrote
    \* tools/dpo_to_sft.py
    sft_input,          \* the --input file: a list of pairs
    sft_idx,            \* position of the loop "for item in data"
    sft_data,           \* the list convert_dpo_to_sft builds
    sft_file,           \* the --output file: <<>> until written, then <<content>>
    \* tools/get_reward_skywork2.py
    ann_input,          \* the --input file: a list of pairs
    rm,                 \* the reward model: the score it gives to <<prompt, response>>
    ann_data,           \* the list loaded, whose items get their scores in place
    ann_idx,            \* position of the loop over data[:100]
    ann_calls,          \* how many times get_reward_score was called, per <<prompt, response>>
    ann_file,           \* the --output file: <<>> until written, then <<content>>
    \* the module-level generator of Python's random
    rng,
    \* the position of the running tool
    pc

expandVars == <<comparison_data, train_ratio, entry_idx, dpo_data, train_data,
                test_data, train_file, test_file, run>>
downVars == <<down_input, target_ratio, data, required, sampled_data, down_output>>
flipVars == <<files, flip_data, flip_idx, flipped_count>>
noiseVars == <<noise_input, flip_ratio, noise_seed, noise_idx, flipped_data,
               flip_count, noise_dpo, noise_sft, noise_prev>>
sftVars == <<sft_input, sft_idx, sft_data, sft_file>>
annVars == <<ann_input, rm, ann_data, ann_idx, ann_calls, ann_file>>
vars == <<expandVars, downVars, flipVars, noiseVars, sftVars, annVars, rng, pc>>

\* What each tool leaves alone: the state of the other tools.
notExpand == <<downVars, flipVars, noiseVars, sftVars, annVars>>
notDown == <<expandVars, flipVars, noiseVars, sftVars, annVars>>
notFlip == <<expandVars, downVars, noiseVars, sftVars, annVars>>
notNoise == <<expandVars, downVars, flipVars, sftVars, annVars>>
notSft == <<expandVars, downVars, flipVars, noiseVars, annVars>>
notAnn == <<expandVars, downVars, flipVars, noiseVars, sftVars>>

\* ------------------------------------------------------------ helpers
RECURSIVE SumSeq(_)
SumSeq(s) == IF s = <<>> THEN 0 ELSE Head(s) + SumSeq(Tail(s))

RECURSIVE SeqToBag(_)
SeqToBag(s) == IF s = <<>> THEN EmptyBag ELSE SeqToBag(Tail(s)) (+) SetToBag({Head(s)})

SeqsUpTo(S, n) == UNION {[1..k -> S] : k \in 0..n}

\* ------------------------------------------------------------ random
(* The generator is a deterministic function of its state.  A process       *)
(* starts with the generator seeded from operating-system entropy: its      *)
(* state is unknown until random.seed is called.                            *)
RngStates == 0..15
Unseeded == [seeded |-> FALSE, s |-> 0]

\* Faulty variant: the seed call has no effect.
SeedIgnored(r, v) == r
Seed(r, v) == [seeded |-> TRUE, s |-> v % 16]

\* The states the generator may be in when it is next used.
StartStates(r) == IF r.seeded THEN {r.s} ELSE RngStates

NextRng(s) == (5 * s + 3) % 16

\* random.random(): a draw in [0,1), as the numerator of a fraction over 16.
\* _randbelow(n): a draw in 0..n-1.
RandBelow(s, n) == (s * n) \div 16

Swap(x, i, j) == [x EXCEPT ![i] = x[j], ![j] = x[i]]

\* random.shuffle(x): for i in reversed(range(1, len(x))):
\*                        j = randbelow(i + 1); x[i], x[j] = x[j], x[i]
\* (positions are 1-based here).  Returns the list and the generator state.
RECURSIVE ShuffleFrom(_, _, _)
ShuffleFrom(x, i, s) ==
    IF i < 2 THEN [list |-> x, s |-> s]
    ELSE LET s1 == NextRng(s)
             j == RandBelow(s1, i) + 1
         IN ShuffleFrom(Swap(x, i, j), i - 1, s1)

Shuffle(x, s) == ShuffleFrom(x, Len(x), s)

\* ------------------------------------------------------------ convert_to_dpo.py
Shapes == {sh \in SeqsUpTo(0..MaxCands, MaxEntries) : SumSeq(sh) <= MaxTotalCands}

Offset(sh, e) == SumSeq(SubSeq(sh, 1, e - 1))

\* The code only compares the scores of one record with each other, so the
\* scores of a record are taken to be its ranks: the values used by a record
\* are 1..k for some k (every ordering with ties of its candidates occurs).
RankScores(sh, sc) ==
    \A e \in 1..Len(sh) :
        LET vals == {sc[Offset(sh, e) + i] : i \in 1..sh[e]}
        IN \A v \in vals : v = 1 \/ (v - 1) \in vals

\* An input file: entry e has sh[e] candidates; candidate i of entry e has the
\* response text <<e, i>>, the next score of sc and the source tag i.
BuildData(sh, sc) ==
    [e \in 1..Len(sh) |->
        [user_input |-> e,
         responses_and_scores |->
            [i \in 1..sh[e] |->
                [response |-> <<e, i>>, score |-> sc[Offset(sh, e) + i], source |-> i]]]]

\* The input file with the candidate list of the entries of absent left out:
\* these entries have no 'responses_and_scores' key.
WithoutCandidates(input, absent) ==
    [e \in 1..Len(input) |->
        IF e \in absent THEN [user_input |-> input[e].user_input] ELSE input[e]]

DpoEntry(user_input, chosen, rejected) ==
    [conversation |-> user_input,
     chosen |-> chosen.response,
     rejected |-> rejected.response,
     chosen_score |-> chosen.score,
     rejected_score |-> rejected.score,
     chosen_source |-> chosen.source,
     rejected_source |-> rejected.source]

\* Faulty variant: a tie is emitted as a pair.
ComparePairKeepsTies(user_input, response_1, response_2, acc) ==
    IF response_1.score >= response_2.score
        THEN Append(acc, DpoEntry(user_input, response_1, response_2))
    ELSE Append(acc, DpoEntry(user_input, response_2, response_1))
\* Faulty variant: the second branch labels the lower score chosen.
ComparePairMislabels(user_input, response_1, response_2, acc) ==
    IF response_1.score > response_2.score
        THEN Append(acc, DpoEntry(user_input, response_1, response_2))
    ELSE IF response_2.score > response_1.score
        THEN Append(acc, DpoEntry(user_input, response_1, response_2))
    ELSE acc
\* The body of the inner loop: the higher score is chosen, a tie is skipped.
ComparePair(user_input, response_1, response_2, acc) ==
    IF response_1.score > response_2.score
        THEN Append(acc, DpoEntry(user_input, response_1, response_2))
    ELSE IF response_2.score > response_1.score
        THEN Append(acc, DpoEntry(user_input, response_2, response_1))
    ELSE acc

\* for j in range(i + 1, len(responses_and_scores))
RECURSIVE InnerLoop(_, _, _, _)
InnerLoop(entry, i, j, acc) ==
    LET rs == entry.responses_and_scores
    IN IF j > Len(rs) THEN acc
       ELSE InnerLoop(entry, i, j + 1, ComparePair(entry.user_input, rs[i], rs[j], acc))

\* for i in range(len(responses_and_scores))
RECURSIVE OuterLoop(_, _, _)
OuterLoop(entry, i, acc) ==
    IF i > Len(entry.responses_and_scores) THEN acc
    ELSE OuterLoop(entry, i + 1, InnerLoop(entry, i, i + 1, acc))

\* split_idx = int(len(dpo_data) * train_ratio), train_ratio = num / RatioDen
SplitIdx(n, num) == (n * num) \div RatioDen

\* Faulty variant: the train slice ends one pair early.
TrainSliceShort(list, split_idx) == SubSeq(list, 1, split_idx - 1)
TrainSlice(list, split_idx) == SubSeq(list, 1, split_idx)
TestSlice(list, split_idx) == SubSeq(list, split_idx + 1, Len(list))

ExpandIdle ==
    /\ comparison_data = <<>>
    /\ train_ratio = 0
    /\ entry_idx = 1
    /\ dpo_data = <<>>
    /\ train_data = <<>>
    /\ test_data = <<>>
    /\ train_file = <<>>
    /\ test_file = <<>>
    /\ run = 1

DownIdle ==
    /\ down_input = <<>>
    /\ target_ratio = 0
    /\ data = <<>>
    /\ required = <<>>
    /\ sampled_data = <<>>
    /\ down_output = <<>>

FlipIdle ==
    /\ files = <<>>
    /\ flip_data = <<>>
    /\ flip_idx = 1
    /\ flipped_count = 0

NoiseIdle ==
    /\ noise_input = <<>>
    /\ flip_ratio = 0
    /\ noise_seed = <<>>
    /\ noise_idx = 1
    /\ flipped_data = <<>>
    /\ flip_count = 0
    /\ noise_dpo = <<>>
    /\ noise_sft = <<>>
    /\ noise_prev = <<>>

SftIdle ==
    /\ sft_input = <<>>
    /\ sft_idx = 1
    /\ sft_data = <<>>
    /\ sft_file = <<>>

\* The <<prompt, response>> arguments get_reward_score can be called with.
Queries == {"p", ""} \X {"x", "y"}

AnnIdle ==
    /\ ann_input = <<>>
    /\ rm = [q \in Queries |-> 1]
    /\ ann_data = <<>>
    /\ ann_idx = 1
    /\ ann_calls = [q \in Queries |-> 0]
    /\ ann_file = <<>>

InitExpand ==
    /\ DownIdle
    /\ FlipIdle
    /\ NoiseIdle
    /\ SftIdle
    /\ AnnIdle
    /\ \E sh \in Shapes : \E sc \in [1..SumSeq(sh) -> 1..MaxCands] :
        \E absent \in SUBSET {e \in 1..Len(sh) : sh[e] = 0} :
            /\ RankScores(sh, sc)
            /\ comparison_data = WithoutCandidates(BuildData(sh, sc), absent)
    /\ train_ratio \in 0..RatioDen
    /\ entry_idx = 1
    /\ dpo_data = <<>>
    /\ train_data = <<>>
    /\ test_data = <<>>
    /\ train_file = <<>>
    /\ test_file = <<>>
    /\ run = 1
    /\ rng = Unseeded
    /\ pc = "expand"

\* One iteration of "for entry in comparison_data".  Reading
\* entry['responses_and_scores'] raises KeyError when the entry has no such
\* key: the tool ends there, nothing written.
ExpandEntry ==
    /\ pc = "expand"
    /\ entry_idx <= Len(comparison_data)
    /\ IF "responses_and_scores" \in DOMAIN comparison_data[entry_idx]
       THEN /\ dpo_data' = OuterLoop(comparison_data[entry_idx], 1, dpo_data)
            /\ entry_idx' = entry_idx + 1
            /\ pc' = pc
       ELSE /\ pc' = "expand_error"
            /\ UNCHANGED <<dpo_data, entry_idx>>
    /\ UNCHANGED <<comparison_data, train_ratio, train_data, test_data,
                   train_file, test_file, run, rng>>
    /\ UNCHANGED notExpand

\* random.seed(42); random.shuffle(dpo_data); the two slices.
ShuffleSplit ==
    /\ pc = "expand"
    /\ entry_idx > Len(comparison_data)
    /\ \E s0 \in StartStates(Seed(rng, SEED)) :
        LET sh == Shuffle(dpo_data, s0)
            split_idx == SplitIdx(Len(sh.list), train_ratio)
        IN /\ dpo_data' = sh.list
           /\ rng' = [seeded |-> TRUE, s |-> sh.s]
           /\ train_data' = TrainSlice(sh.list, split_idx)
           /\ test_data' = TestSlice(sh.list, split_idx)
    /\ pc' = "split"
    /\ UNCHANGED <<comparison_data, train_ratio, entry_idx, train_file, test_file, run>>
    /\ UNCHANGED notExpand

\* json.dump(train_data, ...); json.dump(test_data, ...)
WriteOutputs ==
    /\ pc = "split"
    /\ train_file' = train_data
    /\ test_file' = test_data
    /\ pc' = "done"
    /\ UNCHANGED <<comparison_data, train_ratio, entry_idx, dpo_data, train_data,
                   test_data, run, rng>>
    /\ UNCHANGED notExpand

\* The tool is started again, in a new process, on the same input file and
\* with the same arguments.
RunAgain ==
    /\ pc = "done"
    /\ run < MaxRuns
    /\ run' = run + 1
    /\ rng' = Unseeded
    /\ entry_idx' = 1
    /\ dpo_data' = <<>>
    /\ train_data' = <<>>
    /\ test_data' = <<>>
    /\ pc' = "expand"
    /\ UNCHANGED <<comparison_data, train_ratio, train_file, test_file>>
    /\ UNCHANGED notExpand

NextExpand == ExpandEntry \/ ShuffleSplit \/ WriteOutputs \/ RunAgain

SpecExpand == InitExpand /\ [][NextExpand]_vars

\* The whole expansion: the pair list the loop builds from an input file.
RECURSIVE ExpandAll(_, _, _)
ExpandAll(input, e, acc) ==
    IF e > Len(input) THEN acc
    ELSE ExpandAll(input, e + 1, OuterLoop(input[e], 1, acc))

\* ------------------------------------------------------------ C1 .. C4
\* Positions of dpo_data holding a pair of record e (prompts are distinct).
PairsOfRecord(e) == {k \in 1..Len(dpo_data) : dpo_data[k].conversation = e}

TiedIndexPairs(rs) ==
    {ij \in (1..Len(rs)) \X (1..Len(rs)) : ij[1] < ij[2] /\ rs[ij[1]].score = rs[ij[2]].score}

Choose2(n) == (n * (n - 1)) \div 2

\* C1: for every record the loop has processed, with n candidates of which k
\* index pairs (i < j) carry equal scores, exactly C(n,2) - k pairs of that
\* record have been emitted.
C1_ExpanderCount ==
    \A e \in 1..Len(comparison_data) :
        e < entry_idx =>
            LET rs == comparison_data[e].responses_and_scores
            IN Cardinality(PairsOfRecord(e))
                   = Choose2(Len(rs)) - Cardinality(TiedIndexPairs(rs))

\* A record with three candidates and one tie (scores such as 3,5,5) has been
\* expanded into exactly two pairs, after another record that also gave pairs.
C1_Witness ==
    \E e \in 1..Len(comparison_data) :
        LET rs == comparison_data[e].responses_and_scores
        IN /\ e < entry_idx
           /\ e > 1
           /\ PairsOfRecord(1) # {}
           /\ Len(rs) = 3
           /\ Cardinality(TiedIndexPairs(rs)) = 1
           /\ Cardinality(PairsOfRecord(e)) = 2

\* C2: every emitted pair has chosen_score > rejected_score, and its chosen
\* and rejected sides are two different candidates of the record whose prompt
\* it carries, each side with that candidate's score.
C2_ExpanderStrict ==
    \A k \in 1..Len(dpo_data) :
        LET p == dpo_data[k]
            rs == comparison_data[p.conversation].responses_and_scores
        IN /\ p.chosen_score > p.rejected_score
           /\ \E i, j \in 1..Len(rs) :
                /\ i # j
                /\ p.chosen = rs[i].response /\ p.chosen_score = rs[i].score
                /\ p.rejected = rs[j].response /\ p.rejected_score = rs[j].score

\* A pair whose chosen side is the later candidate (the second branch of the
\* comparison), emitted from a record that also holds a tie.
C2_Witness ==
    \E k \in 1..Len(dpo_data) :
        LET p == dpo_data[k]
            rs == comparison_data[p.conversation].responses_and_scores
        IN /\ p.chosen[2] > p.rejected[2]
           /\ TiedIndexPairs(rs) # {}

\* C3: once the split is made with a train_ratio in (0,1], the train part has
\* floor(len(collection) * train_ratio) pairs, and train and test together hold
\* exactly the pairs of the expanded collection, each as often as it occurs.
C3_SplitPartition ==
    (pc \in {"split", "done"} /\ train_ratio > 0) =>
        LET collection == ExpandAll(comparison_data, 1, <<>>)
            n == Len(collection)
            m == Len(train_data)
        IN /\ m * RatioDen <= n * train_ratio
           /\ (m + 1) * RatioDen > n * train_ratio
           /\ SeqToBag(train_data \o test_data) = SeqToBag(collection)

\* A split of a shuffled collection where len * train_ratio is no integer and
\* both parts are non-empty.
C3_Witness ==
    /\ pc = "split"
    /\ train_ratio > 0
    /\ (Len(dpo_data) * train_ratio) % RatioDen # 0
    /\ train_data # <<>>
    /\ test_data # <<>>
    /\ dpo_data # ExpandAll(comparison_data, 1, <<>>)

\* C4: a second run on the same input with the same seed computes the train
\* and test lists the first run wrote, element for element.
C4_SplitDeterministic ==
    (pc = "split" /\ run >= 2) => (train_data = train_file /\ test_data = test_file)

\* The second run has split a collection that the shuffle reordered.
C4_Witness ==
    /\ pc = "split"
    /\ run = 2
    /\ Len(train_data) >= 2
    /\ test_data # <<>>
    /\ dpo_data # ExpandAll(comparison_data, 1, <<>>)

\* ------------------------------------------------------------ pair files
\* The pairs of the files the tools below read.  A pair may lack its scores.
Pair(c, r) ==
    [chosen |-> "x", rejected |-> "y", chosen_score |-> c, rejected_score |-> r,
     chosen_source |-> "m1", rejected_source |-> "m2"]
Unscored == [chosen |-> "x", rejected |-> "y"]
HalfScored == [chosen |-> "x", rejected |-> "y", rejected_score |-> 2]
NoText(c, r) == [chosen_score |-> c, rejected_score |-> r]

Min(a, b) == IF a <= b THEN a ELSE b

\* ------------------------------------------------------------ tools/downsample_scores.py
DownItems == {Pair(1, 2), Pair(2, 1), Pair(2, 2), Unscored}

\* "chosen_score" not in item or "rejected_score" not in item
LacksScore(item) ==
    "chosen_score" \notin DOMAIN item \/ "rejected_score" \notin DOMAIN item

\* The two lists the first loop fills.
IsLessThan(item) ==
    IF LacksScore(item) THEN FALSE ELSE item.chosen_score < item.rejected_score
\* Faulty variant: a pair that lacks a score goes to neither list.
IsGreaterEqualScoredOnly(item) ==
    IF LacksScore(item) THEN FALSE ELSE ~(item.chosen_score < item.rejected_score)
IsGreaterEqual(item) ==
    IF LacksScore(item) THEN TRUE ELSE ~(item.chosen_score < item.rejected_score)

\* The returns for target_ratio >= 1.0 and target_ratio <= 0.0.
\* Faulty variant: the two returns exchanged.
ExtremeResultSwapped(less_than, greater_equal, num) ==
    IF num >= RatioDen THEN greater_equal ELSE less_than
ExtremeResult(less_than, greater_equal, num) ==
    IF num >= RatioDen THEN less_than ELSE greater_equal

\* int(target_ratio * total_greater_equal / (1 - target_ratio))
\* Faulty variant: divides by 1 instead of 1 - target_ratio.
RequiredLessOfTotal(num, total_greater_equal) ==
    (num * total_greater_equal) \div RatioDen
RequiredLess(num, total_greater_equal) ==
    (num * total_greater_equal) \div (RatioDen - num)

\* int(total_less * (1 - target_ratio) / target_ratio)
\* Faulty variant: rounds up.
RequiredGreaterEqualRoundsUp(num, total_less) ==
    (total_less * (RatioDen - num) + num - 1) \div num
RequiredGreaterEqual(num, total_less) ==
    (total_less * (RatioDen - num)) \div num

\* <<required_less, required_greater_equal>>
SamplingPlan(total_less, total_greater_equal, num) ==
    LET required_less == RequiredLess(num, total_greater_equal)
    IN IF required_less > total_less
       THEN <<Min(total_less, total_less),
              Min(RequiredGreaterEqual(num, total_less), total_greater_equal)>>
       ELSE <<Min(required_less, total_less),
              Min(total_greater_equal, total_greater_equal)>>

\* list[:n]
\* Faulty variant: the first element taken again and again.
TakeRepeats(list, n) == [i \in 1..Min(n, Len(list)) |-> list[1]]
Take(list, n) == SubSeq(list, 1, Min(n, Len(list)))

\* downsample_dataset(data, target_ratio) with the generator in state s0:
\* what it returns, the counts it asked for, and the generator afterwards.
DownsampleResult(d, num, s0) ==
    LET less_than == SelectSeq(d, IsLessThan)
        greater_equal == SelectSeq(d, IsGreaterEqual)
        total_less == Len(less_than)
        total_greater_equal == Len(greater_equal)
    IN IF total_less = 0
           THEN [result |-> d, required |-> <<>>, used |-> FALSE, s |-> s0]
       ELSE IF num >= RatioDen \/ num <= 0
           THEN [result |-> ExtremeResult(less_than, greater_equal, num),
                 required |-> <<>>, used |-> FALSE, s |-> s0]
       ELSE LET plan == SamplingPlan(total_less, total_greater_equal, num)
                sh1 == Shuffle(less_than, s0)
                sh2 == Shuffle(greater_equal, sh1.s)
                sh3 == Shuffle(Take(sh1.list, plan[1]) \o Take(sh2.list, plan[2]), sh2.s)
            IN [result |-> sh3.list, required |-> plan, used |-> TRUE, s |-> sh3.s]

InitDown ==
    /\ ExpandIdle
    /\ FlipIdle
    /\ NoiseIdle
    /\ SftIdle
    /\ AnnIdle
    /\ down_input \in SeqsUpTo(DownItems, MaxItems)
    /\ target_ratio \in (0 - 1)..(RatioDen + 1)
    /\ data = <<>>
    /\ required = <<>>
    /\ sampled_data = <<>>
    /\ down_output = <<>>
    /\ rng = Unseeded
    /\ pc = "down_validate"

\* process_json_file: the target ratio must lie in [0, 1].
DownValidate ==
    /\ pc = "down_validate"
    /\ pc' = IF target_ratio < 0 \/ target_ratio > RatioDen THEN "down_error" ELSE "down_load"
    /\ UNCHANGED <<downVars, rng>>
    /\ UNCHANGED notDown

\* process_json_file: json.load
DownLoad ==
    /\ pc = "down_load"
    /\ data' = down_input
    /\ pc' = "down_sample"
    /\ UNCHANGED <<down_input, target_ratio, required, sampled_data, down_output, rng>>
    /\ UNCHANGED notDown

\* sampled_data = downsample_dataset(data, target_ratio); the generator is
\* never seeded by this tool.
DownsampleDataset ==
    /\ pc = "down_sample"
    /\ \E s0 \in StartStates(rng) :
        LET res == DownsampleResult(data, target_ratio, s0)
        IN /\ sampled_data' = res.result
           /\ required' = res.required
           /\ rng' = IF res.used THEN [seeded |-> TRUE, s |-> res.s] ELSE rng
    /\ pc' = "down_write"
    /\ UNCHANGED <<down_input, target_ratio, data, down_output>>
    /\ UNCHANGED notDown

\* json.dump(sampled_data, ...)
DownWrite ==
    /\ pc = "down_write"
    /\ down_output' = sampled_data
    /\ pc' = "down_done"
    /\ UNCHANGED <<down_input, target_ratio, data, required, sampled_data, rng>>
    /\ UNCHANGED notDown

NextDown == DownValidate \/ DownLoad \/ DownsampleDataset \/ DownWrite

SpecDown == InitDown /\ [][NextDown]_vars

\* ------------------------------------------------------------ C5 .. C8
\* Class A of the rebalancer: both scores present and chosen_score <
\* rejected_score.  Class B: every other pair.
ClassA(item) ==
    /\ {"chosen_score", "rejected_score"} \subseteq DOMAIN item
    /\ item.chosen_score < item.rejected_score
ClassB(item) == ~ClassA(item)

CountA(list) == Cardinality({k \in 1..Len(list) : ClassA(list[k])})
CountB(list) == Cardinality({k \in 1..Len(list) : ClassB(list[k])})

\* downsample_dataset has returned.
DownReturned == pc \in {"down_write", "down_done"}

Interior == 0 < target_ratio /\ target_ratio < RatioDen

\* q is floor(n / d), for d > 0.
IsFloor(q, n, d) == q * d <= n /\ n < (q + 1) * d

\* C5 as claimed: target_ratio = 0 yields exactly class B and target_ratio = 1
\* yields exactly class A, for every input, class A empty or not.
C5_ExtremesAsClaimed ==
    DownReturned =>
        /\ target_ratio = 0 =>
              SeqToBag(sampled_data) = SeqToBag(SelectSeq(down_input, ClassB))
        /\ target_ratio = RatioDen =>
              SeqToBag(sampled_data) = SeqToBag(SelectSeq(down_input, ClassA))

\* C5 (amended): target_ratio = 0 yields exactly class B and nothing of class
\* A; target_ratio = 1 yields exactly class A and nothing of class B when
\* class A is not empty; when class A is empty the input is returned as it is,
\* whatever the target ratio.
C5_Extremes ==
    DownReturned =>
        /\ target_ratio = 0 =>
              /\ SeqToBag(sampled_data) = SeqToBag(SelectSeq(down_input, ClassB))
              /\ CountA(sampled_data) = 0
        /\ (target_ratio = RatioDen /\ CountA(down_input) > 0) =>
              /\ SeqToBag(sampled_data) = SeqToBag(SelectSeq(down_input, ClassA))
              /\ CountB(sampled_data) = 0
        /\ CountA(down_input) = 0 => sampled_data = down_input

\* target_ratio = 1 on an input holding both classes has returned class A.
C5_Witness ==
    /\ pc = "down_done"
    /\ target_ratio = RatioDen
    /\ CountA(down_input) >= 2
    /\ CountB(down_input) >= 2
    /\ CountB(down_output) = 0
    /\ CountA(down_output) = CountA(down_input)

\* C6: for 0 < target_ratio < 1 and both classes non-empty, the output is not
\* empty and its fraction of class-A pairs differs from target_ratio by at
\* most 1 / len(output):  |outA * RatioDen - num * len| <= RatioDen.
C6_RatioAccuracy ==
    (DownReturned /\ Interior /\ CountA(down_input) > 0 /\ CountB(down_input) > 0) =>
        LET n == Len(sampled_data)
            diff == CountA(sampled_data) * RatioDen - target_ratio * n
        IN /\ n > 0
           /\ diff <= RatioDen
           /\ 0 - diff <= RatioDen

\* A sampled output whose achieved ratio is not the target ratio (rounding).
C6_Witness ==
    /\ pc = "down_done"
    /\ Interior
    /\ CountA(down_input) > 0
    /\ CountB(down_input) > 0
    /\ Len(down_output) < Len(down_input)
    /\ CountA(down_output) * RatioDen # target_ratio * Len(down_output)

\* The plan of C7: the output's class counts for class sizes a and b.
PlanHolds(a, b) ==
    LET outA == CountA(sampled_data)
        outB == CountB(sampled_data)
    IN \E needed_a \in 0..(RatioDen * (a + b)) :
        /\ IsFloor(needed_a, target_ratio * b, RatioDen - target_ratio)
        /\ IF needed_a <= a
           THEN outB = b /\ outA = needed_a
           ELSE outA = a /\ IsFloor(outB, a * (RatioDen - target_ratio), target_ratio)

\* C7 as claimed: the plan holds for every a >= 0 and b >= 0.
C7_PlanAsClaimed ==
    (DownReturned /\ Interior) => PlanHolds(CountA(down_input), CountB(down_input))

\* C7 (amended): for 0 < target_ratio < 1 the plan holds for every a >= 1 and
\* b >= 0; for a = 0 the input is returned as it is (all b class-B pairs).
C7_Plan ==
    (DownReturned /\ Interior) =>
        IF CountA(down_input) >= 1
        THEN PlanHolds(CountA(down_input), CountB(down_input))
        ELSE sampled_data = down_input

\* Class A was the bottleneck: all of it is kept and class B is cut down.
C7_Witness ==
    /\ pc = "down_done"
    /\ Interior
    /\ CountA(down_output) = CountA(down_input)
    /\ CountA(down_input) >= 2
    /\ CountB(down_output) >= 1
    /\ CountB(down_output) < CountB(down_input)

\* C8: for every target_ratio in [0,1] the output is a sub-multiset of the
\* input, so it holds at most a + b pairs, at most a of class A and at most b
\* of class B; the counts asked of each class lie in 0..class size.
C8_Bounds ==
    DownReturned =>
        LET a == CountA(down_input)
            b == CountB(down_input)
        IN /\ SeqToBag(sampled_data) \sqsubseteq SeqToBag(down_input)
           /\ Len(sampled_data) <= a + b
           /\ CountA(sampled_data) <= a
           /\ CountB(sampled_data) <= b
           /\ required # <<>> =>
                (required[1] \in 0..a /\ required[2] \in 0..b)

\* Class B is kept whole, with pairs that differ, and class A is cut down.
C8_Witness ==
    /\ pc = "down_done"
    /\ required # <<>>
    /\ required[1] < CountA(down_input)
    /\ required[1] >= 1
    /\ required[2] = CountB(down_input)
    /\ Cardinality({down_output[k] : k \in 1..Len(down_output)}) >= 3

\* ------------------------------------------------------------ C17
NumUnscored(list) == Cardinality({k \in 1..Len(list) : LacksScore(list[k])})

\* The pairs with both scores and chosen_score >= rejected_score.
NumScoredGE(list) ==
    Cardinality({k \in 1..Len(list) :
        ~LacksScore(list[k]) /\ list[k].chosen_score >= list[k].rejected_score})

\* C17: the pairs that lack a score are of class B.  With class A empty they
\* are all returned; at target_ratio = 0 they are all returned, with the
\* scored pairs of class B; at target_ratio = 1 none is returned; in between,
\* they count in the number of class-B pairs the plan is made from, the
\* class-B pairs returned (scored or not) are as many as the plan asks for,
\* and all of them are returned whenever class A is the class cut down.
C17_MissingScoreIsClassB ==
    /\ DownReturned =>
        LET a == CountA(down_input)
            ge == NumScoredGE(down_input)
            u == NumUnscored(down_input)
            u_out == NumUnscored(sampled_data)
        IN /\ (a = 0) => (u_out = u)
           /\ (a > 0 /\ target_ratio = 0) =>
                 (u_out = u /\ Len(sampled_data) = ge + u)
           /\ (a > 0 /\ target_ratio = RatioDen) => (u_out = 0)
           /\ (a > 0 /\ Interior) =>
                 /\ required[2] <= ge + u
                 /\ NumScoredGE(sampled_data) + u_out = required[2]
                 /\ CountA(sampled_data) = required[1]
                 /\ required[1] <= a
                 /\ (required[1] < a) => (required[2] = ge + u /\ u_out = u)
                 /\ (required[2] < ge + u) =>
                        IsFloor(required[2], a * (RatioDen - target_ratio), target_ratio)
    /\ (pc = "down_done") => (NumUnscored(down_output) = NumUnscored(sampled_data))

\* Class B was cut down to fewer pairs than it has, and among the pairs kept
\* is one without scores while one with scores was left out.
C17_Witness ==
    /\ pc = "down_done"
    /\ Interior
    /\ required # <<>>
    /\ required[2] < NumScoredGE(down_input) + NumUnscored(down_input)
    /\ NumUnscored(down_output) >= 1
    /\ NumScoredGE(down_output) < NumScoredGE(down_input)
    /\ NumUnscored(down_input) >= 2

\* ------------------------------------------------------------ tools/flip_scores.py
FlipItems == {Pair(1, 2), Pair(2, 1), Pair(2, 2), Unscored, HalfScored, NoText(1, 2)}

\* Faulty variants: nothing is exchanged; only the texts are exchanged.
FlipDataPointNothing(data_point) == data_point
FlipDataPointTextsOnly(data_point) ==
    IF LacksScore(data_point) THEN data_point
    ELSE IF data_point.chosen_score < data_point.rejected_score
             /\ "chosen" \in DOMAIN data_point /\ "rejected" \in DOMAIN data_point
        THEN [data_point EXCEPT !.chosen = data_point.rejected,
                                !.rejected = data_point.chosen]
    ELSE data_point
\* flip_data_point(data_point): the scores are exchanged, and the chosen and
\* rejected values when the pair has both.
FlipDataPoint(data_point) ==
    IF LacksScore(data_point) THEN data_point
    ELSE IF data_point.chosen_score < data_point.rejected_score
        THEN LET scored == [data_point EXCEPT !.chosen_score = data_point.rejected_score,
                                              !.rejected_score = data_point.chosen_score]
             IN IF "chosen" \in DOMAIN data_point /\ "rejected" \in DOMAIN data_point
                THEN [scored EXCEPT !.chosen = data_point.rejected,
                                    !.rejected = data_point.chosen]
                ELSE scored
    ELSE data_point

\* The test of the loop: both scores are there (data_point.get(...) is not
\* None) and the chosen one is the lower.
NeedsFlip(data_point) ==
    IF LacksScore(data_point) THEN FALSE
    ELSE data_point.chosen_score < data_point.rejected_score

\* Faulty variant: the test is left out, the scores of every scored pair are
\* exchanged.
ProcessPointAlways(data_point) ==
    IF LacksScore(data_point) THEN data_point
    ELSE [data_point EXCEPT !.chosen_score = data_point.rejected_score,
                            !.rejected_score = data_point.chosen_score]
\* The body of the loop over the data points: the point is handed to
\* flip_data_point, which changes it in place, when the test holds, and is
\* passed over otherwise.
ProcessPoint(data_point) ==
    IF NeedsFlip(data_point) THEN FlipDataPoint(data_point) ELSE data_point

InitFlip ==
    /\ ExpandIdle
    /\ DownIdle
    /\ NoiseIdle
    /\ SftIdle
    /\ AnnIdle
    /\ \E input \in SeqsUpTo(FlipItems, MaxPairs) : files = <<input>>
    /\ flip_data = <<>>
    /\ flip_idx = 1
    /\ flipped_count = 0
    /\ rng = Unseeded
    /\ pc = "flip_load"

\* process_json_file: json.load of the input file, the counters set.
FlipLoad ==
    /\ pc = "flip_load"
    /\ flip_data' = files[Len(files)]
    /\ flip_idx' = 1
    /\ flipped_count' = 0
    /\ pc' = "flip_loop"
    /\ UNCHANGED <<files, rng>>
    /\ UNCHANGED notFlip

\* One iteration of "for i, data_point in enumerate(data)".
FlipStep ==
    /\ pc = "flip_loop"
    /\ flip_idx <= Len(flip_data)
    /\ flip_data' = [flip_data EXCEPT ![flip_idx] = ProcessPoint(@)]
    /\ flipped_count' = IF NeedsFlip(flip_data[flip_idx])
                        THEN flipped_count + 1 ELSE flipped_count
    /\ flip_idx' = flip_idx + 1
    /\ UNCHANGED <<files, rng, pc>>
    /\ UNCHANGED notFlip

\* json.dump(data, ...) to the output file.
FlipWrite ==
    /\ pc = "flip_loop"
    /\ flip_idx > Len(flip_data)
    /\ files' = Append(files, flip_data)
    /\ pc' = "flip_done"
    /\ UNCHANGED <<flip_data, flip_idx, flipped_count, rng>>
    /\ UNCHANGED notFlip

\* The tool is run again, on the file it has just written.
FlipAgain ==
    /\ pc = "flip_done"
    /\ Len(files) <= MaxRuns
    /\ pc' = "flip_load"
    /\ UNCHANGED <<flipVars, rng>>
    /\ UNCHANGED notFlip

NextFlip == FlipLoad \/ FlipStep \/ FlipWrite \/ FlipAgain

SpecFlip == InitFlip /\ [][NextFlip]_vars

\* ------------------------------------------------------------ C9, C10
Ordered(list) ==
    \A k \in 1..Len(list) :
        {"chosen_score", "rejected_score"} \subseteq DOMAIN list[k] =>
            list[k].chosen_score >= list[k].rejected_score

\* C9: once the loop has gone through the collection, and in every file the
\* tool has written, each pair that carries both scores has
\* chosen_score >= rejected_score.
C9_EnforcePostcondition ==
    /\ (pc = "flip_loop" /\ flip_idx > Len(flip_data)) => Ordered(flip_data)
    /\ \A k \in 2..Len(files) : Ordered(files[k])

\* A written file whose input held a pair to flip, a pair in order and a pair
\* without scores.
C9_Witness ==
    /\ pc = "flip_done"
    /\ Len(files) = 2
    /\ flipped_count >= 1
    /\ \E i, j, k \in 1..Len(files[1]) :
          /\ files[1][i] = Pair(1, 2) /\ files[2][i].chosen_score = 2
          /\ files[1][j] = Pair(2, 1)
          /\ files[1][k] = Unscored

\* C10: enforce applied to what enforce wrote writes the same pairs again.
C10_EnforceIdempotent ==
    \A k \in 3..Len(files) : files[k] = files[2]

\* The second application has written its file, the first having flipped pairs.
C10_Witness ==
    /\ Len(files) = 3
    /\ files[2] # files[1]
    /\ \E i \in 1..Len(files[1]) : files[1][i] = Pair(1, 2) /\ files[3][i].chosen = "y"
    /\ \E i \in 1..Len(files[1]) : files[1][i] = NoText(1, 2)

\* ------------------------------------------------------------ C11, C12
HasSources(item) == {"chosen_source", "rejected_source"} \subseteq DOMAIN item

\* The pair with its two sides exchanged whole: text, score and source tag.
SwappedWhole(item) ==
    [item EXCEPT !.chosen = item.rejected, !.rejected = item.chosen,
                 !.chosen_score = item.rejected_score,
                 !.rejected_score = item.chosen_score,
                 !.chosen_source = item.rejected_source,
                 !.rejected_source = item.chosen_source]

\* C11: a pair of the input with chosen_score < rejected_score that carries
\* texts, scores and source tags is written with all three exchanged together,
\* so that each side's score and source are still those of the text on it.
C11_SwapWholeRecord ==
    Len(files) >= 2 =>
        \A i \in 1..Len(files[1]) :
            (NeedsFlip(files[1][i]) /\ HasSources(files[1][i])) =>
                files[2][i] = SwappedWhole(files[1][i])

\* C12: a pair whose chosen_score is at least its rejected_score, or that
\* lacks a score, is the same in the collection being processed and in the
\* written file as in the input, and the collection keeps its length and the
\* position of every pair (a flipped pair stays where it was, with the two
\* scores it had).
SameOrFlipped(before, after) ==
    /\ Len(after) = Len(before)
    /\ \A i \in 1..Len(before) :
          IF NeedsFlip(before[i])
          THEN /\ DOMAIN after[i] = DOMAIN before[i]
               /\ {after[i].chosen_score, after[i].rejected_score}
                    = {before[i].chosen_score, before[i].rejected_score}
          ELSE after[i] = before[i]

C12_EnforceFrame ==
    /\ pc = "flip_loop" => SameOrFlipped(files[Len(files)], flip_data)
    /\ \A k \in 2..Len(files) : SameOrFlipped(files[k - 1], files[k])

\* A written file whose input held a flipped pair between a pair with equal
\* scores, a pair in order and pairs lacking one or both scores.
C12_Witness ==
    /\ pc = "flip_done"
    /\ Len(files) = 2
    /\ Len(files[1]) = 3
    /\ files[1][2] = Pair(1, 2) /\ files[2][2].chosen_score = 2
    /\ files[1][1] \in {Pair(2, 2), Pair(2, 1)} /\ files[2][1] = files[1][1]
    /\ files[1][3] \in {Unscored, HalfScored} /\ files[2][3] = files[1][3]

\* ------------------------------------------------------------ C16
\* The record has no candidate list, or one with fewer than two candidates.
Degenerate(entry) ==
    IF "responses_and_scores" \in DOMAIN entry
    THEN Len(entry.responses_and_scores) < 2
    ELSE TRUE

\* C16: the loop does not end in an error at a record without a candidate
\* list or with fewer than two candidates; it goes on to the next record, no
\* pair of the record having been emitted.
C16_DegenerateInput ==
    \A e \in 1..Len(comparison_data) :
        Degenerate(comparison_data[e]) =>
            /\ ~(pc = "expand_error" /\ entry_idx = e)
            /\ e < entry_idx => PairsOfRecord(e) = {}

\* ------------------------------------------------------------ tools/flip_and_convert_to_sft.py
\* A pair of the conversational format: turns carry "from" and "value".
Turn(from, value) == [from |-> from, value |-> value]

Sample(c, r) ==
    [conversations |-> <<Turn("human", "p")>>,
     chosen |-> Turn("gpt", "x"), rejected |-> Turn("gpt", "y"),
     chosen_score |-> c, rejected_score |-> r]
SystemFirst ==
    [conversations |-> <<Turn("system", "s"), Turn("human", "p")>>,
     chosen |-> Turn("gpt", "x"), rejected |-> Turn("gpt", "y")]
NoHuman ==
    [conversations |-> <<Turn("system", "s")>>,
     chosen |-> Turn("gpt", "x"), rejected |-> Turn("gpt", "y")]
NoChosen ==
    [conversations |-> <<Turn("human", "p")>>, rejected |-> Turn("gpt", "y")]

NoiseItems == {Sample(1, 2), Sample(2, 1), SystemFirst, NoHuman, NoChosen}
NoiseSeeds == {<<>>, <<SEED>>, <<7>>}

\* "random.random() < flip_ratio", the draw being draw/16.
\* Faulty variant: the test is "<=".
WillFlipInclusive(draw, ratio) == draw * RatioDen <= ratio * 16
WillFlip(draw, ratio) == draw * RatioDen < ratio * 16

\* item['rejected'], item['chosen'] can be read.
CanSwap(item) == {"chosen", "rejected"} \subseteq DOMAIN item

\* Faulty variant: a pair whose chosen score is the lower is never exchanged.
NewItemLooksAtScores(item, draw, ratio) ==
    IF WillFlip(draw, ratio) /\ ~NeedsFlip(item)
    THEN [item EXCEPT !.chosen = item.rejected, !.rejected = item.chosen]
    ELSE item
\* Faulty variant: the scores are exchanged with the sides.
NewItemMovesScores(item, draw, ratio) ==
    IF WillFlip(draw, ratio)
    THEN [k \in DOMAIN item |->
            IF k = "chosen" THEN item.rejected
            ELSE IF k = "rejected" THEN item.chosen
            ELSE IF k = "chosen_score" THEN item.rejected_score
            ELSE IF k = "rejected_score" THEN item.chosen_score
            ELSE item[k]]
    ELSE item
\* The body of the loop of flip_chosen_rejected: a copy of the item, with
\* chosen and rejected exchanged when the draw is below the ratio.
NewItem(item, draw, ratio) ==
    IF WillFlip(draw, ratio)
    THEN [item EXCEPT !.chosen = item.rejected, !.rejected = item.chosen]
    ELSE item

\* convert_to_sft: the value of the first turn that is from "human", "" when
\* there is none.
RECURSIVE FirstHumanValue(_)
FirstHumanValue(conversations) ==
    IF conversations = <<>> THEN ""
    ELSE IF Head(conversations).from = "human" THEN Head(conversations).value
    ELSE FirstHumanValue(Tail(conversations))

SftEntryOfNoise(item) ==
    [instruction |-> IF "conversations" \in DOMAIN item
                     THEN FirstHumanValue(item.conversations) ELSE "",
     input |-> "",
     output |-> IF "chosen" \in DOMAIN item THEN item.chosen.value ELSE ""]

\* convert_to_sft(data): one entry is appended for every item.
ConvertToSft(list) == [i \in 1..Len(list) |-> SftEntryOfNoise(list[i])]

InitNoise ==
    /\ ExpandIdle
    /\ DownIdle
    /\ FlipIdle
    /\ SftIdle
    /\ AnnIdle
    /\ noise_input \in SeqsUpTo(NoiseItems, MaxPairs)
    /\ flip_ratio \in (0 - 1)..(RatioDen + 1)
    /\ noise_seed \in NoiseSeeds
    /\ noise_idx = 1
    /\ flipped_data = <<>>
    /\ flip_count = 0
    /\ noise_dpo = <<>>
    /\ noise_sft = <<>>
    /\ noise_prev = <<>>
    /\ rng = Unseeded
    /\ pc = "noise_validate"

\* Faulty variant: every flip ratio is let through.
NoiseValidateAcceptsAll ==
    /\ pc = "noise_validate"
    /\ pc' = "noise_load"
    /\ UNCHANGED <<noiseVars, rng>>
    /\ UNCHANGED notNoise
\* main: "if not 0.0 <= args.flip_ratio <= 1.0: raise ValueError".
NoiseValidate ==
    /\ pc = "noise_validate"
    /\ pc' = IF 0 <= flip_ratio /\ flip_ratio <= RatioDen
             THEN "noise_load" ELSE "noise_error"
    /\ UNCHANGED <<noiseVars, rng>>
    /\ UNCHANGED notNoise

\* load_json, then the head of flip_chosen_rejected: random.seed(seed) when a
\* seed is given, the list and the counter set.
NoiseLoad ==
    /\ pc = "noise_load"
    /\ rng' = IF noise_seed # <<>> THEN Seed(rng, noise_seed[1]) ELSE rng
    /\ noise_idx' = 1
    /\ flipped_data' = <<>>
    /\ flip_count' = 0
    /\ pc' = "noise_flip"
    /\ UNCHANGED <<noise_input, flip_ratio, noise_seed, noise_dpo, noise_sft, noise_prev>>
    /\ UNCHANGED notNoise

\* One iteration of "for item in data".  Exchanging the sides of an item that
\* lacks one of them raises KeyError.
NoiseFlipStep ==
    /\ pc = "noise_flip"
    /\ noise_idx <= Len(noise_input)
    /\ \E s0 \in StartStates(rng) :
        LET draw == NextRng(s0)
            item == noise_input[noise_idx]
        IN /\ rng' = [seeded |-> TRUE, s |-> draw]
           /\ IF WillFlip(draw, flip_ratio) /\ ~CanSwap(item)
              THEN /\ pc' = "noise_error"
                   /\ UNCHANGED <<flipped_data, flip_count, noise_idx>>
              ELSE /\ flipped_data' = Append(flipped_data, NewItem(item, draw, flip_ratio))
                   /\ flip_count' = IF WillFlip(draw, flip_ratio)
                                    THEN flip_count + 1 ELSE flip_count
                   /\ noise_idx' = noise_idx + 1
                   /\ pc' = pc
    /\ UNCHANGED <<noise_input, flip_ratio, noise_seed, noise_dpo, noise_sft, noise_prev>>
    /\ UNCHANGED notNoise

\* The end of flip_chosen_rejected, whose report divides by len(data), then
\* save_json(flipped_data, args.output_dpo).
NoiseSaveDpo ==
    /\ pc = "noise_flip"
    /\ noise_idx > Len(noise_input)
    /\ IF Len(noise_input) = 0
       THEN pc' = "noise_error" /\ UNCHANGED noise_dpo
       ELSE pc' = "noise_convert" /\ noise_dpo' = <<flipped_data>>
    /\ UNCHANGED <<noise_input, flip_ratio, noise_seed, noise_idx, flipped_data,
                   flip_count, noise_sft, noise_prev, rng>>
    /\ UNCHANGED notNoise

\* sft_data = convert_to_sft(flipped_data); save_json(sft_data, args.output_sft).
NoiseSaveSft ==
    /\ pc = "noise_convert"
    /\ noise_sft' = <<ConvertToSft(flipped_data)>>
    /\ pc' = "noise_done"
    /\ UNCHANGED <<noise_input, flip_ratio, noise_seed, noise_idx, flipped_data,
                   flip_count, noise_dpo, noise_prev, rng>>
    /\ UNCHANGED notNoise

\* The scores of the pair aside.
WithoutScores(item) ==
    [k \in DOMAIN item \ {"chosen_score", "rejected_score"} |-> item[k]]

\* The collections that are list but for the values of the scores.
ScoreVariants(list) ==
    {other \in [1..Len(list) -> NoiseItems] :
        \A i \in 1..Len(list) :
            /\ DOMAIN other[i] = DOMAIN list[i]
            /\ WithoutScores(other[i]) = WithoutScores(list[i])}

\* The tool, which was given a seed, is started again, in a new process, with
\* the same flip ratio and seed, on a collection that differs from the last
\* one in scores at most.
NoiseAgain ==
    /\ pc = "noise_done"
    /\ noise_seed # <<>>
    /\ Len(noise_prev) < MaxRuns - 1
    /\ noise_prev' = Append(noise_prev, [input |-> noise_input, dpo |-> noise_dpo[1]])
    /\ noise_input' \in ScoreVariants(noise_input)
    /\ rng' = Unseeded
    /\ noise_idx' = 1
    /\ flipped_data' = <<>>
    /\ flip_count' = 0
    /\ pc' = "noise_validate"
    /\ UNCHANGED <<flip_ratio, noise_seed, noise_dpo, noise_sft>>
    /\ UNCHANGED notNoise

NextNoise ==
    NoiseValidate \/ NoiseLoad \/ NoiseFlipStep \/ NoiseSaveDpo \/ NoiseSaveSft \/ NoiseAgain

SpecNoise == InitNoise /\ [][NextNoise]_vars

\* ------------------------------------------------------------ C13
\* The positions at which the written pair has the sides of the input pair
\* exchanged (the two texts of a pair are different).
FlippedPositions(input, output) ==
    {i \in 1..Min(Len(input), Len(output)) :
        "rejected" \in DOMAIN output[i] /\ "chosen" \in DOMAIN input[i]
        /\ output[i].rejected = input[i].chosen}

\* C13: a run with a seed on a collection that differs from an earlier
\* run's in scores only, with the same flip ratio and seed, has exchanged
\* the pairs at the same positions as the earlier run, at every point of its
\* loop and in the file it writes.
C13_NoiseIgnoresScores ==
        \A k \in 1..Len(noise_prev) :
            /\ pc \in {"noise_flip", "noise_convert", "noise_done"} =>
                  FlippedPositions(noise_input, flipped_data)
                    = FlippedPositions(noise_prev[k].input, noise_prev[k].dpo)
                        \cap 1..Len(flipped_data)
            /\ pc = "noise_done" =>
                  FlippedPositions(noise_input, noise_dpo[1])
                    = FlippedPositions(noise_prev[k].input, noise_prev[k].dpo)

\* The second of two seeded runs is over: the scores of the two inputs differ,
\* some pairs were exchanged and some were not.
C13_Witness ==
    /\ pc = "noise_done"
    /\ noise_seed # <<>>
    /\ Len(noise_prev) = 1
    /\ noise_prev[1].input # noise_input
    /\ LET f == FlippedPositions(noise_input, noise_dpo[1])
       IN /\ f # {} /\ f # 1..Len(noise_input)
          /\ \E i \in f : noise_input[i] # noise_prev[1].input[i]
          /\ \E i \in 1..Len(noise_input) \ f : noise_input[i] # noise_prev[1].input[i]

\* ------------------------------------------------------------ tools/dpo_to_sft.py
NoConversations == [chosen |-> Turn("gpt", "x"), rejected |-> Turn("gpt", "y")]
EmptyConversations ==
    [conversations |-> <<>>, chosen |-> Turn("gpt", "x"), rejected |-> Turn("gpt", "y")]

SftItems == NoiseItems \cup {NoConversations, EmptyConversations}

\* item.get("conversations", [])
ConversationsOf(item) ==
    IF "conversations" \in DOMAIN item THEN item.conversations ELSE <<>>

\* "if not conversations: continue"
Skipped(item) == ConversationsOf(item) = <<>>

\* sft_item: the value of the first turn, and the value of chosen ("" when
\* the item has no chosen).
SftItem(item) ==
    [instruction |-> ConversationsOf(item)[1].value,
     input |-> "",
     output |-> IF "chosen" \in DOMAIN item THEN item.chosen.value ELSE ""]

InitSft ==
    /\ ExpandIdle
    /\ DownIdle
    /\ FlipIdle
    /\ NoiseIdle
    /\ AnnIdle
    /\ sft_input \in SeqsUpTo(SftItems, MaxPairs)
    /\ sft_idx = 1
    /\ sft_data = <<>>
    /\ sft_file = <<>>
    /\ rng = Unseeded
    /\ pc = "sft_loop"

\* One iteration of "for item in data".
SftStep ==
    /\ pc = "sft_loop"
    /\ sft_idx <= Len(sft_input)
    /\ sft_data' = IF Skipped(sft_input[sft_idx]) THEN sft_data
                   ELSE Append(sft_data, SftItem(sft_input[sft_idx]))
    /\ sft_idx' = sft_idx + 1
    /\ UNCHANGED <<sft_input, sft_file, rng, pc>>
    /\ UNCHANGED notSft

\* json.dump(sft_data, ...) to the output file.
SftWrite ==
    /\ pc = "sft_loop"
    /\ sft_idx > Len(sft_input)
    /\ sft_file' = <<sft_data>>
    /\ pc' = "sft_done"
    /\ UNCHANGED <<sft_input, sft_idx, sft_data, rng>>
    /\ UNCHANGED notSft

NextSft == SftStep \/ SftWrite

SpecSft == InitSft /\ [][NextSft]_vars

\* The two converters to the single-output format.
InitAdapters == InitNoise \/ InitSft

NextAdapters == NextNoise \/ NextSft

SpecAdapters == InitAdapters /\ [][NextAdapters]_vars

\* ------------------------------------------------------------ C14, C15
HasHumanTurn(item) ==
    /\ "conversations" \in DOMAIN item
    /\ \E k \in 1..Len(item.conversations) : item.conversations[k].from = "human"

HasChosen(item) == "chosen" \in DOMAIN item

\* The record the mapping gives for a pair with a human turn and a chosen side.
MappedRecord(item) ==
    [instruction |-> FirstHumanValue(item.conversations),
     input |-> "",
     output |-> item.chosen.value]

\* records are, in order, the mapped records of some of the pairs.
RECURSIVE MappedFromSome(_, _)
MappedFromSome(records, pairs) ==
    IF records = <<>> THEN TRUE
    ELSE IF pairs = <<>> THEN FALSE
    ELSE \/ /\ HasHumanTurn(Head(pairs)) /\ HasChosen(Head(pairs))
            /\ Head(records) = MappedRecord(Head(pairs))
            /\ MappedFromSome(Tail(records), Tail(pairs))
         \/ MappedFromSome(records, Tail(pairs))

\* C14: in the file either converter writes, every record comes from a pair
\* of the converted collection, in order, and has for instruction the value
\* of that pair's first turn from "human", an empty input, and for output
\* that pair's chosen text.
C14_AdapterMapping ==
    /\ noise_sft # <<>> => MappedFromSome(noise_sft[1], noise_dpo[1])
    /\ sft_file # <<>> => MappedFromSome(sft_file[1], sft_input)

\* The pairs that have both a human turn and a chosen side.
NumConvertible(pairs) ==
    Cardinality({i \in 1..Len(pairs) : HasHumanTurn(pairs[i]) /\ HasChosen(pairs[i])})

\* C15: the file either converter writes has as many records as the converted
\* collection has pairs with both a human turn and a chosen side: a pair
\* without one of them gives no record.
C15_AdapterSkips ==
    /\ noise_sft # <<>> => Len(noise_sft[1]) = NumConvertible(noise_dpo[1])
    /\ sft_file # <<>> => Len(sft_file[1]) = NumConvertible(sft_input)

\* ------------------------------------------------------------ tools/get_reward_skywork2.py
\* A pair without scores; a pair whose two sides carry the same text.
Fresh ==
    [conversations |-> <<Turn("human", "p")>>,
     chosen |-> Turn("gpt", "x"), rejected |-> Turn("gpt", "y")]
SameTexts ==
    [conversations |-> <<Turn("human", "p")>>,
     chosen |-> Turn("gpt", "x"), rejected |-> Turn("gpt", "x")]

AnnItems == {Fresh, SameTexts, Sample(1, 2), NoHuman, NoChosen}

\* Input files longer than the short ones: one item again and again, up to
\* one item more than the loop takes.
LongInputs ==
    {[i \in 1..n |-> item] :
        n \in (ScoreLimit - 1)..(ScoreLimit + 1), item \in {Fresh, Sample(1, 2)}}

\* data[:100]
Sliced(list) == SubSeq(list, 1, Min(Len(list), ScoreLimit))

\* item["conversations"], item["chosen"], item["rejected"] can be read.
HasAnnKeys(item) == {"conversations", "chosen", "rejected"} \subseteq DOMAIN item

\* The arguments of the two calls for an item.
ChosenQuery(item) == <<FirstHumanValue(item.conversations), item.chosen.value>>
RejectedQuery(item) == <<FirstHumanValue(item.conversations), item.rejected.value>>

\* item["chosen_score"] = chosen_score; item["rejected_score"] = rejected_score
WithScores(item, chosen_score, rejected_score) ==
    [k \in DOMAIN item \cup {"chosen_score", "rejected_score"} |->
        IF k = "chosen_score" THEN chosen_score
        ELSE IF k = "rejected_score" THEN rejected_score
        ELSE item[k]]

\* One more call with the arguments q.
Called(calls, q) == [calls EXCEPT ![q] = @ + 1]

InitAnn ==
    /\ ExpandIdle
    /\ DownIdle
    /\ FlipIdle
    /\ NoiseIdle
    /\ SftIdle
    /\ ann_input \in SeqsUpTo(AnnItems, MaxPairs) \cup LongInputs
    /\ rm \in [Queries -> 1..2]
    /\ ann_data = <<>>
    /\ ann_idx = 1
    /\ ann_calls = [q \in Queries |-> 0]
    /\ ann_file = <<>>
    /\ rng = Unseeded
    /\ pc = "ann_load"

\* data = json.load(f)
AnnLoad ==
    /\ pc = "ann_load"
    /\ ann_data' = ann_input
    /\ ann_idx' = 1
    /\ pc' = "ann_loop"
    /\ UNCHANGED <<ann_input, rm, ann_calls, ann_file, rng>>
    /\ UNCHANGED notAnn

\* One iteration of the loop over data[:100]: the prompt and the two
\* responses are read (KeyError when a key is missing), get_reward_score is
\* called for the chosen and then for the rejected response, and the two
\* scores are stored on the item.  Nothing catches an exception.
AnnStep ==
    /\ pc = "ann_loop"
    /\ ann_idx <= Len(Sliced(ann_data))
    /\ LET item == ann_data[ann_idx]
       IN IF ~HasAnnKeys(item)
          THEN /\ pc' = "ann_key_error"
               /\ UNCHANGED <<ann_data, ann_idx, ann_calls>>
          ELSE /\ ann_data' = [ann_data EXCEPT ![ann_idx] =
                                  WithScores(item, rm[ChosenQuery(item)],
                                                   rm[RejectedQuery(item)])]
               /\ ann_calls' = Called(Called(ann_calls, ChosenQuery(item)),
                                      RejectedQuery(item))
               /\ ann_idx' = ann_idx + 1
               /\ pc' = pc
    /\ UNCHANGED <<ann_input, rm, ann_file, rng>>
    /\ UNCHANGED notAnn

\* A call of get_reward_score raises (the model runs out of memory, the
\* tokenizer rejects the text): the first call of the iteration, or the
\* second one after the first has returned.  The script ends there.
AnnOracleFails ==
    /\ pc = "ann_loop"
    /\ ann_idx <= Len(Sliced(ann_data))
    /\ HasAnnKeys(ann_data[ann_idx])
    /\ \E first \in BOOLEAN :
         ann_calls' = IF first
                      THEN Called(ann_calls, ChosenQuery(ann_data[ann_idx]))
                      ELSE Called(Called(ann_calls, ChosenQuery(ann_data[ann_idx])),
                                  RejectedQuery(ann_data[ann_idx]))
    /\ pc' = "ann_oracle_error"
    /\ UNCHANGED <<ann_input, rm, ann_data, ann_idx, ann_file, rng>>
    /\ UNCHANGED notAnn

\* json.dump(data, f), then the statistics, which divide by
\* len(chosen_scores).
AnnWrite ==
    /\ pc = "ann_loop"
    /\ ann_idx > Len(Sliced(ann_data))
    /\ ann_file' = <<ann_data>>
    /\ pc' = IF Len(Sliced(ann_data)) = 0 THEN "ann_stats_error" ELSE "ann_done"
    /\ UNCHANGED <<ann_input, rm, ann_data, ann_idx, ann_calls, rng>>
    /\ UNCHANGED notAnn

NextAnn == AnnLoad \/ AnnStep \/ AnnOracleFails \/ AnnWrite

SpecAnn == InitAnn /\ [][NextAnn]_vars

\* ------------------------------------------------------------ C18, C19, C20
\* The pair carries the scores the reward model gives to its two sides.
ScoredByOracle(item) ==
    /\ {"chosen_score", "rejected_score"} \subseteq DOMAIN item
    /\ item.chosen_score = rm[ChosenQuery(item)]
    /\ item.rejected_score = rm[RejectedQuery(item)]

\* C18: once the output is written, the oracle has been called for both sides
\* of every pair of the input that lacked a score, and every pair of the
\* output carries both scores, each the score of its own prompt and response.
C18_AnnotatorCoverage ==
    ann_file # <<>> =>
        /\ \A i \in 1..Len(ann_input) :
              LacksScore(ann_input[i]) =>
                  /\ ann_calls[ChosenQuery(ann_input[i])] >= 1
                  /\ ann_calls[RejectedQuery(ann_input[i])] >= 1
        /\ \A i \in 1..Len(ann_file[1]) : ScoredByOracle(ann_file[1][i])

\* C19: a failed oracle call does not end the run: the output is written,
\* without the pair the call was for, and with the scores of the others.
C19_FailureIsolated ==
    pc = "ann_oracle_error" =>
        /\ ann_file # <<>>
        /\ \A i \in 1..Len(ann_file[1]) : ScoredByOracle(ann_file[1][i])

\* C20: within a run the oracle is called at most once for any one prompt
\* and response text.
C20_OracleCached ==
    \A q \in Queries : ann_calls[q] <= 1

\* ------------------------------------------------------------ C21
\* The two tools that take a ratio.
InitRatioTools == InitDown \/ InitNoise

NextRatioTools == NextDown \/ NextNoise

SpecRatioTools == InitRatioTools /\ [][NextRatioTools]_vars

OutOfRange(ratio) == ratio < 0 \/ ratio > RatioDen

\* Nothing of the input has been loaded or worked on, the generator has not
\* been used, and no output file exists.
DownUntouched ==
    /\ pc \in {"down_validate", "down_error"}
    /\ data = <<>> /\ required = <<>> /\ sampled_data = <<>> /\ down_output = <<>>
    /\ rng = Unseeded

NoiseUntouched ==
    /\ pc \in {"noise_validate", "noise_error"}
    /\ noise_idx = 1 /\ flipped_data = <<>> /\ flip_count = 0
    /\ noise_dpo = <<>> /\ noise_sft = <<>>
    /\ rng = Unseeded

\* C21: in the rebalancing tool and in the noise-injection tool, a run whose
\* ratio is outside [0,1] never loads or processes the input and never writes
\* an output file, and the step it takes from the validation is the one into
\* the error.
C21_RatioFailFast ==
    /\ [](OutOfRange(target_ratio) => DownUntouched)
    /\ [](OutOfRange(flip_ratio) => NoiseUntouched)
    /\ [][(OutOfRange(target_ratio) /\ pc = "down_validate") => pc' = "down_error"]_vars
    /\ [][(OutOfRange(flip_ratio) /\ pc = "noise_validate") => pc' = "noise_error"]_vars

\* A run on a file of pairs has ended in the error for its ratio, above 1 or
\* below 0, in either tool.
C21_Witness ==
    \/ /\ pc = "down_error"
       /\ OutOfRange(target_ratio)
       /\ Len(down_input) >= 2
    \/ /\ pc = "noise_error"
       /\ OutOfRange(flip_ratio)
       /\ Len(noise_input) >= 2

\* ------------------------------------------------------------ C22
\* The pair with the values of chosen and rejected exchanged.
SidesExchanged(item) ==
    [item EXCEPT !.chosen = item.rejected, !.rejected = item.chosen]

\* flip_chosen_rejected is in its loop or has returned.
NoiseFlipping == pc \in {"noise_flip", "noise_convert", "noise_done"}

\* C22: with flip_ratio = 0 no pair the loop has gone through is flipped, and
\* with flip_ratio = 1 every one of them is, whatever the seed (or without
\* one); so it is in the list returned and in the file written for it.
C22_NoiseBoundaries ==
    /\ (NoiseFlipping /\ flip_ratio = 0) =>
          /\ flip_count = 0
          /\ \A i \in 1..Len(flipped_data) : flipped_data[i] = noise_input[i]
    /\ (NoiseFlipping /\ flip_ratio = RatioDen) =>
          /\ flip_count = Len(flipped_data)
          /\ \A i \in 1..Len(flipped_data) :
                flipped_data[i] = SidesExchanged(noise_input[i])
    /\ (pc = "noise_done" /\ flip_ratio \in {0, RatioDen}) =>
          /\ noise_dpo[1] = flipped_data
          /\ Len(flipped_data) = Len(noise_input)

\* A run without a seed at flip_ratio = 1 has written its file, all of three
\* pairs flipped, pairs with scores among them.
C22_Witness ==
    /\ pc = "noise_done"
    /\ flip_ratio = RatioDen
    /\ noise_seed = <<>>
    /\ Len(noise_input) = 3
    /\ flip_count = 3
    /\ \E i \in 1..3 : noise_input[i] = Sample(1, 2) /\ noise_dpo[1][i].chosen.value = "y"

\* ------------------------------------------------------------ C23
\* after is before, or before with only the values of chosen and rejected
\* exchanged.
SameOrSidesExchanged(before, after) ==
    \/ after = before
    \/ /\ DOMAIN after = DOMAIN before
       /\ after.chosen = before.rejected
       /\ after.rejected = before.chosen
       /\ \A k \in DOMAIN before \ {"chosen", "rejected"} : after[k] = before[k]

\* C23: the list flip_chosen_rejected builds holds, position by position, the
\* pairs of the input it has gone through, each as it was or with only the
\* values of chosen and rejected exchanged; the list returned and written has
\* the length of the input; and no step of a run, from the loading to the last
\* file written, changes the input pairs.
C23_NoiseFrame ==
    /\ [](NoiseFlipping =>
            /\ Len(flipped_data) = noise_idx - 1
            /\ Len(flipped_data) <= Len(noise_input)
            /\ \A i \in 1..Len(flipped_data) :
                  SameOrSidesExchanged(noise_input[i], flipped_data[i]))
    /\ [](pc = "noise_done" =>
            /\ Len(noise_dpo[1]) = Len(noise_input)
            /\ noise_dpo[1] = flipped_data)
    /\ [][(pc \in {"noise_load", "noise_flip", "noise_convert"})
            => (noise_input' = noise_input)]_vars

\* A written file in which a pair with scores was flipped, its scores where
\* they were, and another pair was left as it was.
C23_Witness ==
    /\ pc = "noise_done"
    /\ 0 < flip_ratio /\ flip_ratio < RatioDen
    /\ \E i, j \in 1..Len(noise_input) :
          /\ noise_input[i] = Sample(1, 2)
          /\ noise_dpo[1][i].chosen.value = "y"
          /\ noise_dpo[1][i].chosen_score = 1
          /\ noise_dpo[1][j] = noise_input[j]
          /\ noise_input[j] = Sample(2, 1)

\* ------------------------------------------------------------ C24
\* Every item of the list has both sides.
AllPairs(list) == \A i \in 1..Len(list) : CanSwap(list[i])

\* C24: with a flip ratio in [0,1] and an input of pairs, the empty one
\* included, the run does not end in an error, and flip_chosen_rejected
\* returns a list as long as the input, which is written.
C24_NoiseTotal ==
    (~OutOfRange(flip_ratio) /\ AllPairs(noise_input)) =>
        /\ pc # "noise_error"
        /\ pc \in {"noise_convert", "noise_done"} =>
              /\ Len(flipped_data) = Len(noise_input)
              /\ noise_dpo = <<flipped_data>>

\* ------------------------------------------------------------ all tools
\* One tool is started; the others stay idle.
Init == InitExpand \/ InitDown \/ InitFlip \/ InitNoise \/ InitSft \/ InitAnn

Next == NextExpand \/ NextDown \/ NextFlip \/ NextNoise \/ NextSft \/ NextAnn

Spec == Init /\ [][Next]_vars

====
